---- MODULE Spec2Model ----
(***************************************************************************)
(* Status-probe engine of src/main.ts: the VarInt codec and packet framer, *)
(* the endpoint resolver (resolveSrv / resolveAndConnect), the stream      *)
(* client connectToJavaServer with its reassembly buffer and deadline      *)
(* timer, and the datagram client pingBedrockServer.                       *)
(*                                                                         *)
(* One behaviour is one probe.  Bytes are integers 0..255, byte arrays are *)
(* sequences, JavaScript offsets are 0-based (byte at offset o is s[o+1]). *)
(* The clock counts half-milliseconds, so that performance.now() has a     *)
(* fractional part and Math.round has something to round.                  *)
(***************************************************************************)
EXTENDS Integers, Sequences, FiniteSets, TLC

\* ------------------------------------------------------------------ bounds
\* One clock step, in half-milliseconds (7000.5 ms).
TickH == 14001
\* Clock steps the two DNS lookups may take together.
MaxTicks == 2
\* Records a SRV answer holds at most.
MaxRecords == 2
\* Spaces padding the long status document (makes its frame length >= 128,
\* a two-byte length VarInt).
PadLen == 121
\* Date.now() at the start of the probe, in milliseconds.
EpochMs == 5000
\* createVarInt is called on every value from 0 to MaxSmall (and on the
\* values around each change of length).
MaxSmall == 40
\* Bytes in a buffer readVarInt is called on, at most.
MaxBufLen == 6
\* Children in the extra array of the root of a formatted text, at most.
MaxChildren == 2

\* --------------------------------------------------------- program constants
\* setTimeout(..., 7000)
TIMEOUT_MS == 7000
\* new Uint8Array(4096): the most one read returns
READ_BUFFER_SIZE == 4096
\* const offset = 35 in readBedrockResponse
BEDROCK_INFO_OFFSET == 35
\* new Uint8Array(1024) in pingJava
PING_BUFFER_SIZE == 1024

\* ----------------------------------------------------------------- helpers
Undef == -1

Pow2(n) == 2 ^ n

\* s[o] of a Uint8Array with a 0-based offset: undefined past the end.
ByteAt(s, o) == IF o >= 0 /\ o < Len(s) THEN s[o + 1] ELSE Undef

\* ToInt32 of what an out-of-range or undefined byte gives in `byte & mask`.
AndMask(byte, mask) == IF byte = Undef THEN 0 ELSE byte % (mask + 1)

\* Uint8Array.prototype.slice(start, end): negative indices count from the
\* end, both are clamped to 0..length.
RelIndex(i, len) == IF i < 0 THEN (IF len + i < 0 THEN 0 ELSE len + i)
                    ELSE (IF i > len THEN len ELSE i)

Slice(s, start, end) ==
    LET from == RelIndex(start, Len(s))
        to   == RelIndex(end, Len(s))
    IN  IF to <= from THEN << >> ELSE SubSeq(s, from + 1, to)

SliceFrom(s, start) == Slice(s, start, Len(s))

Repeat(b, n) == [i \in 1..n |-> b]

\* ------------------------------------------------------------ VarInt codec
\* createVarInt works on the value modulo 2^32: `value & 0xffffff80` is 0
\* exactly when the unsigned value is below 128, `value >>>= 7` is the
\* unsigned value shifted.  A value is given here by its int32 alias v; the
\* unsigned value is v for v >= 0 and v + 2^32 for v < 0, whose shift by 7
\* is (v div 128) + 2^25.
\* Shru7 shifting by a whole byte (value >>>= 8).
Shru8(value) == IF value >= 0 THEN value \div 256 ELSE (value \div 256) + 16777216

Shru7(value) == IF value >= 0 THEN value \div 128 ELSE (value \div 128) + 33554432

RECURSIVE createVarInt(_)
createVarInt(value) ==
    IF value >= 0 /\ value < 128
    THEN << value >>
    ELSE << (value % 128) + 128 >> \o createVarInt(Shru7(value))

createPacket(id, data) ==
    LET idBuffer     == createVarInt(id)
        lengthBuffer == createVarInt(Len(idBuffer) + Len(data))
    IN  lengthBuffer \o idBuffer \o data

\* (byte & 0x7f) << (size * 7), as an int32: the shift count is taken modulo
\* 32 and bits shifted past bit 31 are dropped; bit 31 is the sign.
Shl7(bits7, size) ==
    LET sh == (size * 7) % 32
        keep == bits7 % Pow2(32 - sh)
    IN  IF sh = 0 THEN bits7
        ELSE IF keep >= Pow2(31 - sh)
             THEN ((keep - Pow2(31 - sh)) * Pow2(sh) - 2147483647) - 1
             ELSE keep * Pow2(sh)

\* value |= x where the set bits of value and x are disjoint (each group of
\* seven bits lands on its own bit positions): the bitwise or is the sum.
OrDisjoint(value, x) == value + x

ContinueVarInt(byte) == byte # Undef /\ byte >= 128

\* TooBig throwing one byte early.
TooBigAtFive(size) == size >= 5

\* if (size > 5) throw new Error('VarInt is too big')
TooBig(size) == size > 5

\* readVarInt(buffer, offset): [ok, value, offset]; ok = FALSE is the throw of
\* 'VarInt is too big'.
RECURSIVE readVarIntLoop(_, _, _, _)
readVarIntLoop(buffer, offset, value, size) ==
    LET byte   == ByteAt(buffer, offset)
        value2 == OrDisjoint(value, Shl7(AndMask(byte, 127), size))
    IN  IF TooBig(size + 1)
        THEN [ok |-> FALSE, value |-> 0, offset |-> offset + 1]
        ELSE IF ContinueVarInt(byte)
             THEN readVarIntLoop(buffer, offset + 1, value2, size + 1)
             ELSE [ok |-> TRUE, value |-> value2, offset |-> offset + 1]

readVarInt(buffer, offset) == readVarIntLoop(buffer, offset, 0, 0)

\* --------------------------------------------------------------- JSON, text
\* JSON.parse(new TextDecoder().decode(bytes)) on the documents the modelled
\* servers send: {"k":d} with one letter key, one digit value and optional
\* spaces before the closing brace parses to the object {k: d}; the other
\* payloads sent here (empty, truncated) are syntax errors.
JsonParse(bytes) ==
    LET n == Len(bytes)
        wellFormed ==
            /\ n >= 7
            /\ bytes[1] = 123 /\ bytes[2] = 34
            /\ bytes[3] \in 97..122
            /\ bytes[4] = 34 /\ bytes[5] = 58
            /\ bytes[6] \in 48..57
            /\ \A i \in 7..(n - 1) : bytes[i] = 32
            /\ bytes[n] = 125
    IN  IF wellFormed
        THEN [ok |-> TRUE, key |-> bytes[3], num |-> bytes[6] - 48]
        ELSE [ok |-> FALSE, key |-> 0, num |-> 0]

\* ---------------------------------------------------------- server inputs
\* {"o":3}
ShortDoc == << 123, 34, 111, 34, 58, 51, 125 >>
\* {"m":7 ... } padded to more than 127 bytes
LongDoc == << 123, 34, 109, 34, 58, 55 >> \o Repeat(32, PadLen) \o << 125 >>
\* {"o":3   (truncated)
BadDoc == << 123, 34, 111, 34, 58, 51 >>

StatusFrame(doc) == createPacket(0, createVarInt(Len(doc)) \o doc)

PingPayload == << 1, 2, 3, 4, 5, 6, 7, 8 >>

PongFrame == createPacket(1, PingPayload)

UnknownFrame == createPacket(2, << 9 >>)

\* Five continuation bytes and a sixth: no VarInt.
OverlongVarInt == << 128, 128, 128, 128, 128, 1 >>

\* A length VarInt of five bytes with bit 31 set: it declares 2^32 - 1 bytes.
HugeLengthFrame == << 255, 255, 255, 255, 15 >>

\* A status response whose declared length counts one byte more than the id,
\* the JSON length and the JSON take.
PaddedStatusFrame ==
    createVarInt(1 + Len(createVarInt(Len(ShortDoc))) + Len(ShortDoc) + 1)
    \o << 0 >> \o createVarInt(Len(ShortDoc)) \o ShortDoc \o << 0 >>

\* What a server writes to the connection over the whole probe.
Streams ==
    { StatusFrame(ShortDoc) \o PongFrame,
      StatusFrame(LongDoc) \o PongFrame,
      PongFrame,
      UnknownFrame \o StatusFrame(ShortDoc),
      StatusFrame(ShortDoc) \o UnknownFrame \o PongFrame,
      StatusFrame(ShortDoc) \o StatusFrame(ShortDoc) \o PongFrame,
      StatusFrame(BadDoc) \o PongFrame,
      OverlongVarInt,
      HugeLengthFrame,
      PaddedStatusFrame \o PongFrame,
      << >> }

\* Hosts are the bytes TextEncoder gives: "a" asked for, "b" and "c" SRV targets.
OrigHost == << 97 >>
\* parseInt(serverPortStr) : 25565
OrigPort == 25565
SrvRecords == { [target |-> << 98 >>, port |-> 25566],
                [target |-> << 99 >>, port |-> 19133] }

RECURSIVE SeqsUpTo(_, _)
SeqsUpTo(S, n) ==
    IF n = 0 THEN { << >> }
    ELSE LET shorter == SeqsUpTo(S, n - 1)
         IN  shorter \cup { Append(s, x) : s \in { t \in shorter : Len(t) = n - 1 }, x \in S }

\* What Deno.resolveDns(..., "SRV") does: throws, or returns a list of records.
SrvAnswers ==
    { [threw |-> TRUE, records |-> << >>] }
    \cup { [threw |-> FALSE, records |-> r] : r \in SeqsUpTo(SrvRecords, MaxRecords) }

\* Faults of the runtime, as the `code` an error carries ("" : no code).
ConnectCodes == { "ECONNREFUSED" }
TransportCodes == { "ECONNRESET" }
DnsCodes == { "ENOTFOUND" }

Err(message, code) == [message |-> message, code |-> code]

\* ------------------------------------------------------------------- state
VARIABLES
    revision,               \* 1: resolveAndConnect, 2: the second revision's handler
    isJava,                 \* resolveAndConnect's isJava
    pc,                     \* the await the probe is suspended at
    host, port,             \* resolveAndConnect's host and port
    srvAnswer,              \* what the SRV lookup answered, while resolveAndConnect
                            \* (or the second handler) has not yet started the probe
    clock,                  \* half-milliseconds since the request came in
    timerState,             \* "unset", "armed", "fired", "cleared"
    deadline,               \* clock value the timer is due at
    hasResolvedOrRejected,
    conn,                   \* "none" (undefined), "open", "closed"
    closeCount,             \* calls of conn.close()
    outcome,                \* the promise of the probe
    settleCalls,            \* calls of resolve and reject
    dnsError,               \* what the A lookup threw (NoErr: nothing)
    buffer, serverInfo, pingStartTime,
    sliceAt,                \* offset + jsonLength, kept across the ping write
    stream,                 \* all the bytes the server writes to the connection
    wire,                   \* the bytes of stream not yet returned by a read
    request,                \* pingBedrockServer's pingPacket
    requestAt,              \* clock at the call of conn.send
    msg,                    \* the datagram conn.receive() returned
    sent,                   \* frames and datagrams written, in order
    events,                 \* what happened, in order
    call,                   \* a helper function called on its own: its name
                            \* and arguments ("none" during a probe)
    ret                     \* what that call returned or threw

vars == << revision, isJava, pc, host, port, srvAnswer, clock, timerState, deadline,
           hasResolvedOrRejected, conn, closeCount, outcome, settleCalls, dnsError,
           buffer, serverInfo, pingStartTime, sliceAt, stream, wire, request,
           requestAt, msg, sent, events, call, ret >>

pureVars == << call, ret >>
resolverVars == << revision, isJava, host, port, srvAnswer >>
settleVars == << timerState, hasResolvedOrRejected, conn, closeCount, outcome,
                 settleCalls, events >>
javaVars == << buffer, serverInfo, pingStartTime, sliceAt, stream, wire >>
bedrockVars == << request, requestAt, msg >>

NoAnswer == [threw |-> FALSE, records |-> << >>]
NoInfo == [defined |-> FALSE, key |-> 0, num |-> 0, latency |-> Undef]
NoErr == Err("", "")
NoCall == [fn |-> "none"]
NoRet == [done |-> FALSE]
Pending == [kind |-> "pending", value |-> NoInfo, err |-> NoErr]
Resolved(v) == [kind |-> "resolved", value |-> v, err |-> NoErr]
Rejected(e) == [kind |-> "rejected", value |-> NoInfo, err |-> e]

\* performance.now() differences are in milliseconds with a fraction; the
\* clock is in half-milliseconds.  Math.round rounds halves up.
MathRound(halves) == (halves + 1) \div 2

\* Date.now(): whole milliseconds.
DateNow == EpochMs + (clock \div 2)

Init ==
    /\ revision \in {1, 2}
    /\ isJava \in BOOLEAN
    /\ pc = "srv"
    /\ host = OrigHost
    /\ port = OrigPort
    /\ srvAnswer = NoAnswer
    /\ clock = 0
    /\ timerState = "unset"
    /\ deadline = 0
    /\ hasResolvedOrRejected = FALSE
    /\ conn = "none"
    /\ closeCount = 0
    /\ outcome = Pending
    /\ settleCalls = 0
    /\ dnsError = NoErr
    /\ buffer = << >>
    /\ serverInfo = NoInfo
    /\ pingStartTime = Undef
    /\ sliceAt = 0
    /\ stream = << >>
    /\ wire = << >>
    /\ request = << >>
    /\ requestAt = 0
    /\ msg = << >>
    /\ sent = << >>
    /\ events = << >>
    /\ call = NoCall
    /\ ret = NoRet

\* Time passes while the probe waits: during the lookups for at most MaxTicks
\* steps, and under an armed timer until the timer is due.
Tick ==
    /\ \/ timerState = "unset" /\ pc \in {"srv", "dnsA"} /\ clock < MaxTicks * TickH
       \/ timerState = "armed" /\ clock < deadline
    /\ clock' = clock + TickH
    /\ UNCHANGED << revision, isJava, pc, host, port, srvAnswer, timerState, deadline,
                    hasResolvedOrRejected, conn, closeCount, outcome, settleCalls,
                    dnsError, buffer, serverInfo, pingStartTime, sliceAt, stream, wire,
                    request, requestAt, msg, sent, events >>
    /\ UNCHANGED pureVars

\* ---------------------------------------------------------------- resolver
\* resolveSrv taking the last record of the answer.
resolveSrvLast(answer) ==
    IF answer.threw \/ Len(answer.records) = 0
    THEN [found |-> FALSE, name |-> << >>, port |-> 0]
    ELSE [found |-> TRUE, name |-> answer.records[Len(answer.records)].target,
          port |-> answer.records[Len(answer.records)].port]

\* resolveSrv: null (here: found = FALSE) on a throw or an empty answer.
resolveSrv(answer) ==
    IF answer.threw THEN [found |-> FALSE, name |-> << >>, port |-> 0]
    ELSE IF Len(answer.records) > 0
         THEN [found |-> TRUE, name |-> answer.records[1].target,
               port |-> answer.records[1].port]
         ELSE [found |-> FALSE, name |-> << >>, port |-> 0]

\* The second revision's resolveSrv(host) || { target: host, port }.
resolveSrv2(answer, h, p) ==
    IF ~answer.threw /\ Len(answer.records) # 0
    THEN [target |-> answer.records[1].target, port |-> answer.records[1].port]
    ELSE [target |-> h, port |-> p]

\* resolveAndConnect up to its second await: the SRV lookup has answered.
resolveAndConnect ==
    /\ pc = "srv" /\ revision = 1
    /\ \E answer \in SrvAnswers :
         LET srvRecord == resolveSrv(answer)
         IN  /\ srvAnswer' = answer
             /\ host' = IF srvRecord.found THEN srvRecord.name ELSE host
             /\ port' = IF srvRecord.found THEN srvRecord.port ELSE port
    /\ pc' = "dnsA"
    /\ UNCHANGED << revision, isJava, clock, deadline, dnsError, sent >>
    /\ UNCHANGED settleVars
    /\ UNCHANGED javaVars
    /\ UNCHANGED bedrockVars
    /\ UNCHANGED pureVars

\* The second revision's request handler up to its call of pingJava or
\* pingBedrock with srv.target and srv.port.
serve2 ==
    /\ pc = "srv" /\ revision = 2
    /\ \E answer \in SrvAnswers :
         LET srv == resolveSrv2(answer, host, port)
         IN  /\ srvAnswer' = answer
             /\ host' = srv.target
             /\ port' = srv.port
    /\ pc' = "ping2"
    /\ UNCHANGED << revision, isJava, clock, deadline, dnsError, sent >>
    /\ UNCHANGED settleVars
    /\ UNCHANGED javaVars
    /\ UNCHANGED bedrockVars
    /\ UNCHANGED pureVars

\* await Deno.resolveDns(host, "A") throws: resolveAndConnect logs and rethrows.
resolveDnsThrows ==
    /\ pc = "dnsA"
    /\ \E code \in DnsCodes : dnsError' = Err("dns", code)
    /\ pc' = "returned"
    /\ UNCHANGED resolverVars
    /\ UNCHANGED << clock, deadline, sent >>
    /\ UNCHANGED settleVars
    /\ UNCHANGED javaVars
    /\ UNCHANGED bedrockVars
    /\ UNCHANGED pureVars

\* What resolveAndConnect returns or throws: `return await` hands the probe's
\* promise through, and its catch rethrows what it caught.
resolveAndConnectResult ==
    IF dnsError # NoErr THEN Rejected(dnsError) ELSE outcome

\* ------------------------------------------------------ connectToJavaServer
\* The bodies of the four places that settle the promise.  Each takes the
\* events that precede it in the same step.

\* TimeoutBody setting the flag and closing, without the call of reject.
TimeoutBodySilent(evs) ==
    /\ timerState' = "fired"
    /\ hasResolvedOrRejected' = TRUE
    /\ conn' = IF conn # "none" THEN "closed" ELSE conn
    /\ closeCount' = IF conn # "none" THEN closeCount + 1 ELSE closeCount
    /\ events' = events \o evs
    /\ UNCHANGED << outcome, settleCalls >>

\* The setTimeout callback.
TimeoutBody(evs) ==
    /\ timerState' = "fired"
    /\ IF ~hasResolvedOrRejected
       THEN /\ hasResolvedOrRejected' = TRUE
            /\ conn' = IF conn # "none" THEN "closed" ELSE conn
            /\ closeCount' = IF conn # "none" THEN closeCount + 1 ELSE closeCount
            /\ outcome' = Rejected(Err("timeout", "TIMEOUT"))
            /\ settleCalls' = settleCalls + 1
            /\ events' = events \o evs
                         \o (IF conn # "none" THEN << "close" >> ELSE << >>)
                         \o << "reject" >>
       ELSE /\ events' = events \o evs
            /\ UNCHANGED << hasResolvedOrRejected, conn, closeCount, outcome, settleCalls >>

\* ResolveBody without conn.close().
ResolveBodyNoClose(evs, info) ==
    IF ~hasResolvedOrRejected
    THEN /\ hasResolvedOrRejected' = TRUE
         /\ timerState' = "cleared"
         /\ outcome' = Resolved(info)
         /\ settleCalls' = settleCalls + 1
         /\ events' = events \o evs \o << "resolve" >>
         /\ UNCHANGED << conn, closeCount >>
    ELSE /\ events' = events \o evs
         /\ UNCHANGED << timerState, hasResolvedOrRejected, conn, closeCount, outcome,
                         settleCalls >>

\* The pong branch's if (!hasResolvedOrRejected) { ... resolve(serverInfo) }.
ResolveBody(evs, info) ==
    IF ~hasResolvedOrRejected
    THEN /\ hasResolvedOrRejected' = TRUE
         /\ timerState' = "cleared"
         /\ conn' = "closed"
         /\ closeCount' = closeCount + 1
         /\ outcome' = Resolved(info)
         /\ settleCalls' = settleCalls + 1
         /\ events' = events \o evs \o << "close", "resolve" >>
    ELSE /\ events' = events \o evs
         /\ UNCHANGED << timerState, hasResolvedOrRejected, conn, closeCount, outcome,
                         settleCalls >>

\* catch (e) of the frame handling: conn.close() without a test of conn.
InnerCatch(evs, e) ==
    IF ~hasResolvedOrRejected
    THEN /\ hasResolvedOrRejected' = TRUE
         /\ timerState' = "cleared"
         /\ conn' = "closed"
         /\ closeCount' = closeCount + 1
         /\ outcome' = Rejected(e)
         /\ settleCalls' = settleCalls + 1
         /\ events' = events \o evs \o << "close", "reject" >>
    ELSE /\ events' = events \o evs
         /\ UNCHANGED << timerState, hasResolvedOrRejected, conn, closeCount, outcome,
                         settleCalls >>

\* OuterCatch without its test of hasResolvedOrRejected.
OuterCatchUnguarded(evs, e) ==
    /\ hasResolvedOrRejected' = TRUE
    /\ timerState' = "cleared"
    /\ conn' = IF conn # "none" THEN "closed" ELSE conn
    /\ closeCount' = IF conn # "none" THEN closeCount + 1 ELSE closeCount
    /\ outcome' = Rejected(e)
    /\ settleCalls' = settleCalls + 1
    /\ events' = events \o evs
                 \o (IF conn # "none" THEN << "close" >> ELSE << >>)
                 \o << "reject" >>

\* catch (err) around the whole probe: if (conn!) conn.close().
OuterCatch(evs, e) ==
    IF ~hasResolvedOrRejected
    THEN /\ hasResolvedOrRejected' = TRUE
         /\ timerState' = "cleared"
         /\ conn' = IF conn # "none" THEN "closed" ELSE conn
         /\ closeCount' = IF conn # "none" THEN closeCount + 1 ELSE closeCount
         /\ outcome' = Rejected(e)
         /\ settleCalls' = settleCalls + 1
         /\ events' = events \o evs
                      \o (IF conn # "none" THEN << "close" >> ELSE << >>)
                      \o << "reject" >>
    ELSE /\ events' = events \o evs
         /\ UNCHANGED << timerState, hasResolvedOrRejected, conn, closeCount, outcome,
                         settleCalls >>

\* new DataView(portBuffer.buffer).setUint16(0, port, false)
Uint16BE(n) == << (n % 65536) \div 256, n % 256 >>

handshakeData(h, p) ==
    createVarInt(-1) \o createVarInt(Len(h)) \o h \o Uint16BE(p) \o createVarInt(1)

handshakePacket(h, p) == createPacket(0, handshakeData(h, p))

statusRequestPacket == createPacket(0, << >>)

pingPacket == createPacket(1, PingPayload)

\* The A lookup answered and isJava holds: connectToJavaServer runs to its
\* first await (the timer is set, Deno.connect is under way).
connectToJavaServer ==
    /\ pc = "dnsA" /\ isJava
    /\ timerState' = "armed"
    /\ deadline' = clock + 2 * TIMEOUT_MS
    /\ pc' = "connect"
    /\ srvAnswer' = NoAnswer
    /\ UNCHANGED << revision, isJava, host, port >>
    /\ UNCHANGED << clock, dnsError, sent, hasResolvedOrRejected, conn, closeCount,
                    outcome, settleCalls, events >>
    /\ UNCHANGED javaVars
    /\ UNCHANGED bedrockVars
    /\ UNCHANGED pureVars

\* The setTimeout callback of connectToJavaServer.
overallTimeout ==
    /\ isJava /\ timerState = "armed" /\ clock >= deadline
    /\ TimeoutBody(<< "deadline" >>)
    /\ UNCHANGED resolverVars
    /\ UNCHANGED << pc, clock, deadline, dnsError, sent >>
    /\ UNCHANGED javaVars
    /\ UNCHANGED bedrockVars
    /\ UNCHANGED pureVars

\* Deno.connect resolved: the handshake is built and its write is under way.
\* The server behind the connection is chosen here.
ConnectOk ==
    /\ pc = "connect"
    /\ conn' = "open"
    /\ stream' \in Streams
    /\ wire' = stream'
    /\ events' = Append(events, "connected")
    /\ pc' = "writeHandshake"
    /\ UNCHANGED resolverVars
    /\ UNCHANGED << clock, deadline, dnsError, sent, timerState, hasResolvedOrRejected,
                    closeCount, outcome, settleCalls >>
    /\ UNCHANGED << buffer, serverInfo, pingStartTime, sliceAt >>
    /\ UNCHANGED bedrockVars
    /\ UNCHANGED pureVars

\* Deno.connect rejected.
ConnectFault ==
    /\ pc = "connect"
    /\ \E code \in ConnectCodes : OuterCatch(<< "fault" >>, Err("connect", code))
    /\ pc' = "exit"
    /\ UNCHANGED resolverVars
    /\ UNCHANGED << clock, deadline, dnsError, sent >>
    /\ UNCHANGED javaVars
    /\ UNCHANGED bedrockVars
    /\ UNCHANGED pureVars

\* await conn.write(handshakePacket) resolved; the status request's write is
\* under way.
WriteHandshakeOk ==
    /\ pc = "writeHandshake" /\ conn = "open"
    /\ sent' = Append(sent, handshakePacket(host, port))
    /\ events' = Append(events, "handshake")
    /\ pc' = "writeStatusRequest"
    /\ UNCHANGED resolverVars
    /\ UNCHANGED << clock, deadline, dnsError, timerState, hasResolvedOrRejected, conn,
                    closeCount, outcome, settleCalls >>
    /\ UNCHANGED javaVars
    /\ UNCHANGED bedrockVars
    /\ UNCHANGED pureVars

\* await conn.write(statusRequestPacket) resolved; the read loop is entered
\* when nothing has settled yet.
WriteStatusRequestOk ==
    /\ pc = "writeStatusRequest" /\ conn = "open"
    /\ sent' = Append(sent, statusRequestPacket)
    /\ events' = Append(events, "statusRequest")
    /\ pc' = IF ~hasResolvedOrRejected THEN "read" ELSE "exit"
    /\ UNCHANGED resolverVars
    /\ UNCHANGED << clock, deadline, dnsError, timerState, hasResolvedOrRejected, conn,
                    closeCount, outcome, settleCalls >>
    /\ UNCHANGED javaVars
    /\ UNCHANGED bedrockVars
    /\ UNCHANGED pureVars

\* One of the two first writes, or a read, rejected: the connection failed,
\* or the timer closed it under the pending operation.
TransportFault ==
    /\ pc \in {"writeHandshake", "writeStatusRequest", "read"}
    /\ conn \in {"open", "closed"}
    /\ \E code \in TransportCodes : OuterCatch(<< "fault" >>, Err("io", code))
    /\ pc' = "exit"
    /\ UNCHANGED resolverVars
    /\ UNCHANGED << clock, deadline, dnsError, sent >>
    /\ UNCHANGED javaVars
    /\ UNCHANGED bedrockVars
    /\ UNCHANGED pureVars

\* The try block of the read loop on the buffer after the append, up to the
\* branch taken: "wait" (frame incomplete), "status", "pong", "ignore" (a
\* complete frame with another id: no branch), "throw".
NoFrame(kind, message) ==
    [kind |-> kind, message |-> message, key |-> 0, num |-> 0, consumed |-> 0]

\* FrameComplete comparing the buffer with the declared length alone.
FrameCompleteNoOffset(buf, len) == Len(buf) >= len.value

\* if (buffer.length >= offset + length)
FrameComplete(buf, len) == Len(buf) >= len.offset + len.value

ParseFrame(buf) ==
    LET len == readVarInt(buf, 0)
    IN  IF ~len.ok THEN NoFrame("throw", "VarInt is too big")
        ELSE IF ~FrameComplete(buf, len) THEN NoFrame("wait", "")
        ELSE LET packetId == readVarInt(buf, len.offset)
             IN  IF ~packetId.ok THEN NoFrame("throw", "VarInt is too big")
                 ELSE IF packetId.value = 0
                 THEN LET jsonLength == readVarInt(buf, packetId.offset)
                      IN  IF ~jsonLength.ok THEN NoFrame("throw", "VarInt is too big")
                          ELSE LET json == JsonParse(Slice(buf, jsonLength.offset,
                                                 jsonLength.offset + jsonLength.value))
                               IN  IF ~json.ok THEN NoFrame("throw", "SyntaxError")
                                   ELSE [kind |-> "status", message |-> "",
                                         key |-> json.key, num |-> json.num,
                                         consumed |-> jsonLength.offset + jsonLength.value]
                 ELSE IF packetId.value = 1 THEN NoFrame("pong", "")
                 ELSE NoFrame("ignore", "")

Min(a, b) == IF a < b THEN a ELSE b

\* The buffer ends inside a VarInt that starts at its first byte.
TruncatedVarInt(buf) ==
    /\ buf # << >> /\ Len(buf) < 5
    /\ \A i \in 1..Len(buf) : buf[i] >= 128

\* What the log keeps of a read that took no branch: that a complete frame
\* with an id other than 0 and 1 was at the head of the buffer, or that the
\* buffer ended inside the length VarInt.
ReadNote(buf, frame) ==
    IF frame.kind = "ignore" THEN << "unknown" >>
    ELSE IF TruncatedVarInt(buf) THEN << "truncated" >>
    ELSE << >>

\* await conn.read(readBuffer) returned bytesRead > 0 bytes: one pass of the
\* loop body, to the next await (the next read, or the ping's write) or out
\* of the loop.
ReadData ==
    /\ pc = "read" /\ conn = "open" /\ wire # << >>
    /\ \E bytesRead \in 1..Min(Len(wire), READ_BUFFER_SIZE) :
         LET newBuffer == buffer \o SubSeq(wire, 1, bytesRead)
             frame     == ParseFrame(newBuffer)
             latency   == clock - pingStartTime
         IN  /\ wire' = SubSeq(wire, bytesRead + 1, Len(wire))
             /\ buffer' = newBuffer
             /\ CASE frame.kind = "status" ->
                       /\ serverInfo' = [defined |-> TRUE, key |-> frame.key,
                                         num |-> frame.num, latency |-> Undef]
                       /\ pingStartTime' = clock
                       /\ sliceAt' = frame.consumed
                       /\ events' = Append(events, "status")
                       /\ pc' = "writePing"
                       /\ UNCHANGED << timerState, hasResolvedOrRejected, conn,
                                       closeCount, outcome, settleCalls >>
                  [] frame.kind = "pong" /\ serverInfo.defined ->
                       /\ serverInfo' = [serverInfo EXCEPT !.latency = MathRound(latency)]
                       /\ ResolveBody(<< "pong" >>, serverInfo')
                       /\ pc' = "exit"
                       /\ UNCHANGED << pingStartTime, sliceAt >>
                  [] frame.kind = "pong" /\ ~serverInfo.defined ->
                       /\ InnerCatch(<< "pong" >>, Err("TypeError", ""))
                       /\ pc' = "exit"
                       /\ UNCHANGED << serverInfo, pingStartTime, sliceAt >>
                  [] frame.kind = "throw" ->
                       /\ InnerCatch(<< "throw" >>, Err(frame.message, ""))
                       /\ pc' = "exit"
                       /\ UNCHANGED << serverInfo, pingStartTime, sliceAt >>
                  [] frame.kind \in {"wait", "ignore"} ->
                       /\ pc' = "read"
                       /\ events' = events \o ReadNote(newBuffer, frame)
                       /\ UNCHANGED << serverInfo, pingStartTime, sliceAt >>
                       /\ UNCHANGED << timerState, hasResolvedOrRejected, conn,
                                       closeCount, outcome, settleCalls >>
    /\ UNCHANGED resolverVars
    /\ UNCHANGED << clock, deadline, dnsError, sent, stream >>
    /\ UNCHANGED bedrockVars
    /\ UNCHANGED pureVars

\* ReadEof closing the socket on its way out of the loop.
ReadEofCloses ==
    /\ pc = "read" /\ conn = "open"
    /\ events' = events \o << "eof", "close" >>
    /\ conn' = "closed"
    /\ closeCount' = closeCount + 1
    /\ pc' = "exit"
    /\ UNCHANGED resolverVars
    /\ UNCHANGED << clock, deadline, dnsError, sent, timerState, hasResolvedOrRejected,
                    outcome, settleCalls >>
    /\ UNCHANGED javaVars
    /\ UNCHANGED bedrockVars
    /\ UNCHANGED pureVars

\* await conn.read(readBuffer) returned null: break.
ReadEof ==
    /\ pc = "read" /\ conn = "open"
    /\ events' = Append(events, "eof")
    /\ pc' = "exit"
    /\ UNCHANGED resolverVars
    /\ UNCHANGED << clock, deadline, dnsError, sent, timerState, hasResolvedOrRejected,
                    conn, closeCount, outcome, settleCalls >>
    /\ UNCHANGED javaVars
    /\ UNCHANGED bedrockVars
    /\ UNCHANGED pureVars

\* WritePingOk going on to a pong that is already in the buffer, without
\* another read.
WritePingOkDrain ==
    /\ pc = "writePing" /\ conn = "open"
    /\ sent' = Append(sent, pingPacket)
    /\ buffer' = SliceFrom(buffer, sliceAt)
    /\ IF ParseFrame(SliceFrom(buffer, sliceAt)).kind = "pong"
       THEN /\ serverInfo' = [serverInfo EXCEPT
                                !.latency = MathRound(clock - pingStartTime)]
            /\ ResolveBody(<< "ping", "pong" >>, serverInfo')
            /\ pc' = "exit"
       ELSE /\ events' = Append(events, "ping")
            /\ pc' = IF ~hasResolvedOrRejected THEN "read" ELSE "exit"
            /\ UNCHANGED << serverInfo, timerState, hasResolvedOrRejected, conn,
                            closeCount, outcome, settleCalls >>
    /\ UNCHANGED resolverVars
    /\ UNCHANGED << clock, deadline, dnsError >>
    /\ UNCHANGED << pingStartTime, sliceAt, stream, wire >>
    /\ UNCHANGED bedrockVars
    /\ UNCHANGED pureVars

\* await conn.write(pingPacket) resolved: the frame is cut off the buffer and
\* the loop goes on.
WritePingOk ==
    /\ pc = "writePing" /\ conn = "open"
    /\ sent' = Append(sent, pingPacket)
    /\ events' = Append(events, "ping")
    /\ buffer' = SliceFrom(buffer, sliceAt)
    /\ pc' = IF ~hasResolvedOrRejected THEN "read" ELSE "exit"
    /\ UNCHANGED resolverVars
    /\ UNCHANGED << clock, deadline, dnsError, timerState, hasResolvedOrRejected, conn,
                    closeCount, outcome, settleCalls >>
    /\ UNCHANGED << serverInfo, pingStartTime, sliceAt, stream, wire >>
    /\ UNCHANGED bedrockVars
    /\ UNCHANGED pureVars

\* await conn.write(pingPacket) rejected: caught by the loop's catch.
WritePingFault ==
    /\ pc = "writePing"
    /\ \E code \in TransportCodes : InnerCatch(<< "fault" >>, Err("io", code))
    /\ pc' = "exit"
    /\ UNCHANGED resolverVars
    /\ UNCHANGED << clock, deadline, dnsError, sent >>
    /\ UNCHANGED javaVars
    /\ UNCHANGED bedrockVars
    /\ UNCHANGED pureVars

\* -------------------------------------------------------- pingBedrockServer
\* setBigUint64(0, n, false): eight bytes, most significant first.
RECURSIVE BigEndian(_, _)
BigEndian(n, bytes) ==
    IF bytes = 0 THEN << >> ELSE Append(BigEndian(n \div 256, bytes - 1), n % 256)

\* getBigUint64(offset, false) of eight bytes.
RECURSIVE ReadBigEndian(_)
ReadBigEndian(bytes) ==
    IF bytes = << >> THEN 0
    ELSE ReadBigEndian(SubSeq(bytes, 1, Len(bytes) - 1)) * 256 + bytes[Len(bytes)]

magic == << 0, 255, 255, 0, 254, 254, 254, 254, 253, 253, 253, 253, 18, 52, 86, 120 >>

\* Math.floor(Math.random() * 1e15)
ClientGuids == { 3, 77 }

createBedrockPacket(guid) ==
    << 1 >> \o BigEndian(DateNow, 8) \o magic \o BigEndian(guid, 8)

\* String.prototype.split(';') on bytes: the fields between the separators.
RECURSIVE Split(_, _)
Split(bytes, sep) ==
    IF \A i \in 1..Len(bytes) : bytes[i] # sep THEN << bytes >>
    ELSE LET k == CHOOSE i \in 1..Len(bytes) :
                      bytes[i] = sep /\ \A j \in 1..(i - 1) : bytes[j] # sep
         IN  << SubSeq(bytes, 1, k - 1) >> \o Split(SubSeq(bytes, k + 1, Len(bytes)), sep)

\* serverInfoParts[i] (0-based): undefined past the last field.
NoField == << Undef >>
Part(parts, i) == IF i < Len(parts) THEN parts[i + 1] ELSE NoField

\* parseInt(s, 10) of a field of digits and other characters, without sign or
\* leading blanks: the number its leading digits spell, NaN without any.
RECURSIVE Digits(_, _)
Digits(s, acc) ==
    IF s # << >> /\ s[1] \in 48..57
    THEN Digits(Tail(s), acc * 10 + (s[1] - 48))
    ELSE acc

parseInt(s) ==
    IF s = NoField \/ s = << >> \/ s[1] \notin 48..57
    THEN [nan |-> TRUE, n |-> 0]
    ELSE [nan |-> FALSE, n |-> Digits(s, 0)]

\* readBedrockResponse without its test of the packet id.
readBedrockResponseAnyId(m) ==
    LET serverInfoParts == Split(SliceFrom(m, BEDROCK_INFO_OFFSET), 59)
    IN  [ok              |-> TRUE,
         edition         |-> Part(serverInfoParts, 0),
         motd            |-> Part(serverInfoParts, 1),
         protocol        |-> parseInt(Part(serverInfoParts, 2)),
         version         |-> Part(serverInfoParts, 3),
         playersOnline   |-> parseInt(Part(serverInfoParts, 4)),
         playersMax      |-> parseInt(Part(serverInfoParts, 5)),
         serverId        |-> Part(serverInfoParts, 6),
         worldname       |-> Part(serverInfoParts, 7),
         gameMode        |-> Part(serverInfoParts, 8),
         nintendoLimited |-> Part(serverInfoParts, 9),
         portIPv4        |-> Part(serverInfoParts, 10),
         portIPv6        |-> Part(serverInfoParts, 11),
         latency         |-> Undef]

\* readBedrockResponse: ok = FALSE is the throw of 'Invalid packet ID'.
readBedrockResponse(m) ==
    LET packetId == ByteAt(m, 0)
        serverInfoParts == Split(SliceFrom(m, BEDROCK_INFO_OFFSET), 59)
    IN  [ok              |-> packetId = 28,
         edition         |-> Part(serverInfoParts, 0),
         motd            |-> Part(serverInfoParts, 1),
         protocol        |-> parseInt(Part(serverInfoParts, 2)),
         version         |-> Part(serverInfoParts, 3),
         playersOnline   |-> parseInt(Part(serverInfoParts, 4)),
         playersMax      |-> parseInt(Part(serverInfoParts, 5)),
         serverId        |-> Part(serverInfoParts, 6),
         worldname       |-> Part(serverInfoParts, 7),
         gameMode        |-> Part(serverInfoParts, 8),
         nintendoLimited |-> Part(serverInfoParts, 9),
         portIPv4        |-> Part(serverInfoParts, 10),
         portIPv6        |-> Part(serverInfoParts, 11),
         latency         |-> Undef]

\* A reply datagram: id, echoed time, 26 bytes (server id, magic, string
\* length), then the text.
Reply(id, time, text) == << id >> \o BigEndian(time, 8) \o Repeat(0, 26) \o text

\* "MCPE;m;5;v;1;9;s;w;g" and the shorter "MCPE;m;5"
FullText == << 77, 67, 80, 69, 59, 109, 59, 53, 59, 118, 59, 49, 59, 57, 59, 115,
               59, 119, 59, 103 >>
ShortText == << 77, 67, 80, 69, 59, 109, 59, 53 >>

\* What may come back for a request: a pong echoing the request's time, a
\* pong with another time (zero, or later than now), another packet id, a
\* one-byte pong, an empty datagram.
Replies(req) ==
    LET time == ReadBigEndian(SubSeq(req, 2, 9))
    IN  { Reply(28, time, FullText),
          Reply(28, time, ShortText),
          Reply(28, 0, FullText),
          Reply(28, time + 4 * TIMEOUT_MS, FullText),
          Reply(1, time, FullText),
          << 28 >>,
          << >> }

\* The setTimeout callback of pingBedrockServer.
BedrockTimeoutBody(evs) ==
    /\ timerState' = "fired"
    /\ IF ~hasResolvedOrRejected
       THEN /\ hasResolvedOrRejected' = TRUE
            /\ conn' = IF conn # "none" THEN "closed" ELSE conn
            /\ closeCount' = IF conn # "none" THEN closeCount + 1 ELSE closeCount
            /\ outcome' = Rejected(Err("timeout", "TIMEOUT"))
            /\ settleCalls' = settleCalls + 1
            /\ events' = events \o evs
                         \o (IF conn # "none" THEN << "close" >> ELSE << >>)
                         \o << "reject" >>
       ELSE /\ events' = events \o evs
            /\ UNCHANGED << hasResolvedOrRejected, conn, closeCount, outcome, settleCalls >>

\* BedrockCatch without its test of hasResolvedOrRejected.
BedrockCatchUnguarded(evs, e) ==
    /\ hasResolvedOrRejected' = TRUE
    /\ timerState' = "cleared"
    /\ conn' = IF conn # "none" THEN "closed" ELSE conn
    /\ closeCount' = IF conn # "none" THEN closeCount + 1 ELSE closeCount
    /\ outcome' = Rejected(e)
    /\ settleCalls' = settleCalls + 1
    /\ events' = events \o evs
                 \o (IF conn # "none" THEN << "close" >> ELSE << >>)
                 \o << "reject" >>

\* catch (err) of pingBedrockServer: if (conn!) conn.close().
BedrockCatch(evs, e) ==
    IF ~hasResolvedOrRejected
    THEN /\ hasResolvedOrRejected' = TRUE
         /\ timerState' = "cleared"
         /\ conn' = IF conn # "none" THEN "closed" ELSE conn
         /\ closeCount' = IF conn # "none" THEN closeCount + 1 ELSE closeCount
         /\ outcome' = Rejected(e)
         /\ settleCalls' = settleCalls + 1
         /\ events' = events \o evs
                      \o (IF conn # "none" THEN << "close" >> ELSE << >>)
                      \o << "reject" >>
    ELSE /\ events' = events \o evs
         /\ UNCHANGED << timerState, hasResolvedOrRejected, conn, closeCount, outcome,
                         settleCalls >>

\* The A lookup answered and isJava is false: pingBedrockServer runs to its
\* first await.  Deno.listenDatagram throws (bound = FALSE) or the socket is
\* there and the send is under way.
pingBedrockServer ==
    /\ pc = "dnsA" /\ ~isJava
    /\ deadline' = clock + 2 * TIMEOUT_MS
    /\ srvAnswer' = NoAnswer
    /\ \E bound \in BOOLEAN, guid \in ClientGuids :
         IF bound
         THEN /\ conn' = "open"
              /\ timerState' = "armed"
              /\ request' = createBedrockPacket(guid)
              /\ events' = Append(events, "bound")
              /\ pc' = "send"
              /\ UNCHANGED << hasResolvedOrRejected, closeCount, outcome, settleCalls >>
         ELSE /\ BedrockCatch(<< "fault" >>, Err("listen", "EADDRINUSE"))
              /\ pc' = "exit"
              /\ UNCHANGED request
    /\ requestAt' = clock
    /\ UNCHANGED << revision, isJava, host, port, clock, dnsError, sent, msg >>
    /\ UNCHANGED javaVars
    /\ UNCHANGED pureVars

\* The setTimeout callback of pingBedrockServer.
timeout ==
    /\ ~isJava /\ timerState = "armed" /\ clock >= deadline
    /\ BedrockTimeoutBody(<< "deadline" >>)
    /\ UNCHANGED resolverVars
    /\ UNCHANGED << pc, clock, deadline, dnsError, sent >>
    /\ UNCHANGED javaVars
    /\ UNCHANGED bedrockVars
    /\ UNCHANGED pureVars

\* await conn.send(pingPacket, addr) resolved; conn.receive() is under way.
SendOk ==
    /\ pc = "send" /\ conn = "open"
    /\ sent' = Append(sent, request)
    /\ events' = Append(events, "request")
    /\ pc' = "receive"
    /\ UNCHANGED resolverVars
    /\ UNCHANGED << clock, deadline, dnsError, timerState, hasResolvedOrRejected, conn,
                    closeCount, outcome, settleCalls >>
    /\ UNCHANGED javaVars
    /\ UNCHANGED bedrockVars
    /\ UNCHANGED pureVars

\* conn.send or conn.receive rejected: the socket failed, or the timer closed
\* it under the pending operation.
DatagramFault ==
    /\ pc \in {"send", "receive"}
    /\ conn \in {"open", "closed"}
    /\ \E code \in TransportCodes : BedrockCatch(<< "fault" >>, Err("io", code))
    /\ pc' = "exit"
    /\ UNCHANGED resolverVars
    /\ UNCHANGED << clock, deadline, dnsError, sent >>
    /\ UNCHANGED javaVars
    /\ UNCHANGED bedrockVars
    /\ UNCHANGED pureVars

\* The block run on a received datagram: if (!hasResolvedOrRejected) { ...
\* try { resolve } catch { reject } finally { conn.close() } }.  isBuffer says
\* whether the runtime hands the datagram as an ArrayBuffer, which is what
\* new DataView(msg) takes; given a typed array the constructor throws a
\* TypeError.  getBigUint64(1) throws a RangeError on fewer than nine bytes.
ReplyBody(m, isBuffer) ==
    LET parsed == readBedrockResponse(m)
        responseTime == DateNow - ReadBigEndian(SubSeq(m, 2, 9))
        settled ==
            IF ~parsed.ok THEN Rejected(Err("Invalid packet ID", ""))
            ELSE IF ~isBuffer THEN Rejected(Err("TypeError", ""))
            ELSE IF Len(m) < 9 THEN Rejected(Err("RangeError", ""))
            ELSE Resolved([parsed EXCEPT !.latency = responseTime])
    IN  IF ~hasResolvedOrRejected
        THEN /\ hasResolvedOrRejected' = TRUE
             /\ timerState' = "cleared"
             /\ outcome' = settled
             /\ settleCalls' = settleCalls + 1
             /\ conn' = "closed"
             /\ closeCount' = closeCount + 1
             /\ events' = events \o << "reply" >>
                          \o (IF settled.kind = "resolved" THEN << "resolve" >>
                              ELSE << "reject" >>)
                          \o << "close" >>
        ELSE /\ events' = Append(events, "reply")
             /\ UNCHANGED << timerState, hasResolvedOrRejected, conn, closeCount,
                             outcome, settleCalls >>

\* await conn.receive() resolved with a datagram.
ReceiveReply ==
    /\ pc = "receive" /\ conn = "open"
    /\ \E m \in Replies(request), isBuffer \in BOOLEAN :
         /\ msg' = m
         /\ ReplyBody(m, isBuffer)
    /\ pc' = "exit"
    /\ UNCHANGED resolverVars
    /\ UNCHANGED << clock, deadline, dnsError, sent, request, requestAt >>
    /\ UNCHANGED javaVars
    /\ UNCHANGED pureVars

\* ------------------------------------------ pingJava (the second revision)
\* The three frames pingJava builds in place, without createPacket.
pingJavaHandshakePacket(h, p) ==
    LET handshakePayload == createVarInt(-1) \o createVarInt(Len(h)) \o h
                            \o Uint16BE(p) \o createVarInt(1)
    IN  createVarInt(0) \o createVarInt(Len(handshakePayload)) \o handshakePayload

pingJavaStatusRequest == createVarInt(0) \o createVarInt(0)

pingJavaPingPacket ==
    createVarInt(1) \o createVarInt(Len(PingPayload)) \o PingPayload

\* buf after conn.read(buf) stored chunk at its start: the rest of the fresh
\* new Uint8Array(1024) is zero.
ReadInto(chunk) == chunk \o Repeat(0, PING_BUFFER_SIZE - Len(chunk))

\* Lines 603-608 on buf: info, or the error thrown.
pingJavaParse(buf) ==
    LET length == readVarInt(buf, 0)
    IN  IF ~length.ok THEN NoFrame("throw", "VarInt too big")
        ELSE LET packetId == readVarInt(buf, length.offset)
             IN  IF ~packetId.ok THEN NoFrame("throw", "VarInt too big")
                 ELSE IF packetId.value # 0 THEN NoFrame("throw", "Invalid packet")
                 ELSE LET jsonLen == readVarInt(buf, packetId.offset)
                      IN  IF ~jsonLen.ok THEN NoFrame("throw", "VarInt too big")
                          ELSE LET json == JsonParse(Slice(buf, jsonLen.offset,
                                                 jsonLen.offset + jsonLen.value))
                               IN  IF ~json.ok THEN NoFrame("throw", "SyntaxError")
                                   ELSE [kind |-> "status", message |-> "",
                                         key |-> json.key, num |-> json.num,
                                         consumed |-> jsonLen.offset + jsonLen.value]

\* finally { conn.close() }, then the promise of the async function settles.
PingJavaFinally(evs, result) ==
    /\ conn' = "closed"
    /\ closeCount' = closeCount + 1
    /\ outcome' = result
    /\ settleCalls' = settleCalls + 1
    /\ events' = events \o evs \o << "close" >>
                 \o (IF result.kind = "resolved" THEN << "resolve" >> ELSE << "reject" >>)
    /\ UNCHANGED << timerState, hasResolvedOrRejected >>

\* The handler calls pingJava and Deno.connect resolves: the handshake is
\* built and its write is under way.
pingJava ==
    /\ pc = "ping2" /\ isJava
    /\ conn' = "open"
    /\ stream' \in Streams
    /\ wire' = stream'
    /\ events' = Append(events, "connected")
    /\ pc' = "writeHandshake2"
    /\ UNCHANGED resolverVars
    /\ UNCHANGED << clock, deadline, dnsError, sent, timerState, hasResolvedOrRejected,
                    closeCount, outcome, settleCalls >>
    /\ UNCHANGED << buffer, serverInfo, pingStartTime, sliceAt >>
    /\ UNCHANGED bedrockVars
    /\ UNCHANGED pureVars

\* Deno.connect rejected: the await is outside the try, nothing is closed.
PingJavaConnectFault ==
    /\ pc = "ping2" /\ isJava
    /\ \E code \in ConnectCodes : outcome' = Rejected(Err("connect", code))
    /\ settleCalls' = settleCalls + 1
    /\ events' = events \o << "fault", "reject" >>
    /\ pc' = "exit"
    /\ UNCHANGED resolverVars
    /\ UNCHANGED << clock, deadline, dnsError, sent, timerState, hasResolvedOrRejected,
                    conn, closeCount >>
    /\ UNCHANGED javaVars
    /\ UNCHANGED bedrockVars
    /\ UNCHANGED pureVars

PingJavaWriteHandshakeOk ==
    /\ pc = "writeHandshake2"
    /\ sent' = Append(sent, pingJavaHandshakePacket(host, port))
    /\ events' = Append(events, "handshake")
    /\ pc' = "writeStatusRequest2"
    /\ UNCHANGED resolverVars
    /\ UNCHANGED << clock, deadline, dnsError, timerState, hasResolvedOrRejected, conn,
                    closeCount, outcome, settleCalls >>
    /\ UNCHANGED javaVars
    /\ UNCHANGED bedrockVars
    /\ UNCHANGED pureVars

PingJavaWriteStatusRequestOk ==
    /\ pc = "writeStatusRequest2"
    /\ sent' = Append(sent, pingJavaStatusRequest)
    /\ events' = Append(events, "statusRequest")
    /\ pc' = "read2"
    /\ UNCHANGED resolverVars
    /\ UNCHANGED << clock, deadline, dnsError, timerState, hasResolvedOrRejected, conn,
                    closeCount, outcome, settleCalls >>
    /\ UNCHANGED javaVars
    /\ UNCHANGED bedrockVars
    /\ UNCHANGED pureVars

\* The one read of the status response resolved, with bytesRead bytes or with
\* null (bytesRead = 0: buf stays zero); buf is parsed as it is.
PingJavaRead ==
    /\ pc = "read2"
    /\ \E bytesRead \in (IF wire = << >> THEN {0}
                         ELSE 1..Min(Len(wire), PING_BUFFER_SIZE)) :
         LET buf  == ReadInto(SubSeq(wire, 1, bytesRead))
             info == pingJavaParse(buf)
         IN  /\ wire' = SubSeq(wire, bytesRead + 1, Len(wire))
             /\ buffer' = SubSeq(wire, 1, bytesRead)
             /\ IF info.kind = "status"
                THEN /\ serverInfo' = [defined |-> TRUE, key |-> info.key,
                                       num |-> info.num, latency |-> Undef]
                     /\ pingStartTime' = clock
                     /\ events' = Append(events, "status")
                     /\ pc' = "writePing2"
                     /\ UNCHANGED << timerState, hasResolvedOrRejected, conn,
                                     closeCount, outcome, settleCalls >>
                ELSE /\ PingJavaFinally(<< "throw" >>, Rejected(Err(info.message, "")))
                     /\ pc' = "exit"
                     /\ UNCHANGED << serverInfo, pingStartTime >>
    /\ UNCHANGED resolverVars
    /\ UNCHANGED << clock, deadline, dnsError, sent, stream, sliceAt >>
    /\ UNCHANGED bedrockVars
    /\ UNCHANGED pureVars

PingJavaWritePingOk ==
    /\ pc = "writePing2"
    /\ sent' = Append(sent, pingJavaPingPacket)
    /\ events' = Append(events, "ping")
    /\ pc' = "pong2"
    /\ UNCHANGED resolverVars
    /\ UNCHANGED << clock, deadline, dnsError, timerState, hasResolvedOrRejected, conn,
                    closeCount, outcome, settleCalls >>
    /\ UNCHANGED javaVars
    /\ UNCHANGED bedrockVars
    /\ UNCHANGED pureVars

\* The second read resolved, with whatever the server had still to give or
\* with null: what it returned is not looked at.
PingJavaPong ==
    /\ pc = "pong2"
    /\ wire' = SubSeq(wire, Min(Len(wire), PING_BUFFER_SIZE) + 1, Len(wire))
    /\ serverInfo' = [serverInfo EXCEPT !.latency = MathRound(clock - pingStartTime)]
    /\ PingJavaFinally(<< "pong" >>, Resolved(serverInfo'))
    /\ pc' = "exit"
    /\ UNCHANGED resolverVars
    /\ UNCHANGED << clock, deadline, dnsError, sent >>
    /\ UNCHANGED << buffer, pingStartTime, sliceAt, stream >>
    /\ UNCHANGED bedrockVars
    /\ UNCHANGED pureVars

\* A write or a read of pingJava rejected.
PingJavaFault ==
    /\ pc \in {"writeHandshake2", "writeStatusRequest2", "read2", "writePing2", "pong2"}
    /\ \E code \in TransportCodes :
         PingJavaFinally(<< "fault" >>, Rejected(Err("io", code)))
    /\ pc' = "exit"
    /\ UNCHANGED resolverVars
    /\ UNCHANGED << clock, deadline, dnsError, sent >>
    /\ UNCHANGED javaVars
    /\ UNCHANGED bedrockVars
    /\ UNCHANGED pureVars

Next ==
    \/ Tick
    \/ resolveAndConnect
    \/ serve2
    \/ resolveDnsThrows
    \/ connectToJavaServer
    \/ overallTimeout
    \/ ConnectOk
    \/ ConnectFault
    \/ WriteHandshakeOk
    \/ WriteStatusRequestOk
    \/ TransportFault
    \/ ReadData
    \/ ReadEof
    \/ WritePingOk
    \/ WritePingFault
    \/ pingBedrockServer
    \/ timeout
    \/ SendOk
    \/ DatagramFault
    \/ ReceiveReply
    \/ pingJava
    \/ PingJavaConnectFault
    \/ PingJavaWriteHandshakeOk
    \/ PingJavaWriteStatusRequestOk
    \/ PingJavaRead
    \/ PingJavaWritePingOk
    \/ PingJavaPong
    \/ PingJavaFault

Spec == Init /\ [][Next]_vars

\* The event loop runs a timer that is due, and time passes; nothing makes a
\* server, a resolver or the network act.
FairSpec ==
    /\ Spec
    /\ WF_vars(Tick)
    /\ WF_vars(overallTimeout)
    /\ WF_vars(timeout)

\* ------------------------------------------- helper functions on their own
\* A helper function is called on its own with arguments drawn from a bounded
\* set; no probe runs meanwhile.
PureInit(calls) ==
    /\ revision = 1
    /\ isJava = TRUE
    /\ pc = "pure"
    /\ host = OrigHost
    /\ port = OrigPort
    /\ srvAnswer = NoAnswer
    /\ clock = 0
    /\ timerState = "unset"
    /\ deadline = 0
    /\ hasResolvedOrRejected = FALSE
    /\ conn = "none"
    /\ closeCount = 0
    /\ outcome = Pending
    /\ settleCalls = 0
    /\ dnsError = NoErr
    /\ buffer = << >>
    /\ serverInfo = NoInfo
    /\ pingStartTime = Undef
    /\ sliceAt = 0
    /\ stream = << >>
    /\ wire = << >>
    /\ request = << >>
    /\ requestAt = 0
    /\ msg = << >>
    /\ sent = << >>
    /\ events = << >>
    /\ call \in calls
    /\ ret = NoRet

probeVars == << revision, isJava, pc, host, port, srvAnswer, clock, timerState,
                deadline, hasResolvedOrRejected, conn, closeCount, outcome,
                settleCalls, dnsError, buffer, serverInfo, pingStartTime, sliceAt,
                stream, wire, request, requestAt, msg, sent, events >>

\* ---- the VarInt codec
\* Arguments of createVarInt, each a 32-bit value given by its int32 alias
\* (a negative alias a stands for the unsigned value a + 2^32): the small
\* values and the values around each change of the encoding's length.
CodecValues ==
    (0 .. MaxSmall)
    \cup { 127, 128, 129, 255, 256, 16383, 16384, 2097151, 2097152,
           268435455, 268435456, 2147483647,
           -1, -2, -128, -129, -268435456, -268435457, -2147483647,
           -2147483647 - 1 }

\* Bytes of the buffers readVarInt is called on: with and without the
\* continuation bit.
VarIntBytes == { 1, 127, 128, 255 }
CodecBuffers == SeqsUpTo(VarIntBytes, MaxBufLen)
CodecOffsets == { 0, 2 }

CodecCall(fn, value, buf, offset, roundTrip) ==
    [fn |-> fn, value |-> value, buffer |-> buf, offset |-> offset,
     roundTrip |-> roundTrip]

CodecCalls ==
    { CodecCall("createVarInt", v, << >>, 0, FALSE) : v \in CodecValues }
    \cup { CodecCall("readVarInt", 0, b, o, FALSE) :
             b \in CodecBuffers, o \in CodecOffsets }

CodecInit == PureInit(CodecCalls)

\* createVarInt(value) returns.
CallCreateVarInt ==
    /\ call.fn = "createVarInt" /\ ~ret.done
    /\ ret' = [done |-> TRUE, threw |-> FALSE, bytes |-> createVarInt(call.value),
               value |-> 0, offset |-> 0]
    /\ UNCHANGED call
    /\ UNCHANGED probeVars

\* readVarInt(buffer, offset) returns [value, offset] or throws.
CallReadVarInt ==
    /\ call.fn = "readVarInt" /\ ~ret.done
    /\ LET r == readVarInt(call.buffer, call.offset)
       IN  ret' = [done |-> TRUE, threw |-> ~r.ok, bytes |-> << >>,
                   value |-> r.value, offset |-> r.offset]
    /\ UNCHANGED call
    /\ UNCHANGED probeVars

\* The bytes createVarInt returned are handed to readVarInt at offset 0.
ReadBack ==
    /\ call.fn = "createVarInt" /\ ret.done
    /\ call' = CodecCall("readVarInt", call.value, ret.bytes, 0, TRUE)
    /\ ret' = NoRet
    /\ UNCHANGED probeVars

CodecNext ==
    \/ CallCreateVarInt
    \/ CallReadVarInt
    \/ ReadBack

CodecSpec == CodecInit /\ [][CodecNext]_vars

\* ---- the rich text flattener
\* A string is a sequence of UTF-16 code units; 167 is the section sign.
SectionSign == << 167 >>

\* A FormattedText value: a JavaScript string (kind "string"), or an object
\* (kind "object") with its color ("" when it has none), the names of the
\* properties that are true in it, its text ("" when it has none) and its
\* extra array.
StringNode(text) ==
    [kind |-> "string", color |-> "", attrs |-> {}, text |-> text, extra |-> << >>]
ObjectNode(color, attrs, text, extra) ==
    [kind |-> "object", color |-> color, attrs |-> attrs, text |-> text,
     extra |-> extra]

\* The table of getColorCode.
colorCodes ==
    [black |-> 48, dark_blue |-> 49, dark_green |-> 50, dark_aqua |-> 51,
     dark_red |-> 52, dark_purple |-> 53, gold |-> 54, gray |-> 55,
     dark_gray |-> 56, blue |-> 57, green |-> 97, aqua |-> 98, red |-> 99,
     light_purple |-> 100, yellow |-> 101, white |-> 102]

\* String(Object): what the template literal makes of colorCodes.constructor,
\* "function Object() { [native code] }".
ObjectFunctionText ==
    << 102, 117, 110, 99, 116, 105, 111, 110, 32, 79, 98, 106, 101, 99, 116, 40,
       41, 32, 123, 32, 91, 110, 97, 116, 105, 118, 101, 32, 99, 111, 100, 101,
       93, 32, 125 >>

\* getColorCode: colorCodes[colorName] || 'f'.  colorCodes is an object
\* literal, so a name it does not define is looked up in Object.prototype:
\* "constructor" finds the function Object, which is truthy.
getColorCode(colorName) ==
    IF colorName \in DOMAIN colorCodes THEN << colorCodes[colorName] >>
    ELSE IF colorName = "constructor" THEN ObjectFunctionText
    ELSE << 102 >>

\* item.<name> as a condition.  On an object: the property is there and
\* truthy.  On a string: the property is looked up in String.prototype, which
\* defines the method bold (and none of the other names read here).
Truthy(item, name) ==
    IF item.kind = "string" THEN name = "bold"
    ELSE IF name = "color" THEN item.color # ""
    ELSE name \in item.attrs

\* hasFormatting / prevHasFormatting of the extra loop.
hasFormatting(item) ==
    \/ Truthy(item, "color") \/ Truthy(item, "bold") \/ Truthy(item, "italic")
    \/ Truthy(item, "underline") \/ Truthy(item, "strikethrough")
    \/ Truthy(item, "obfuscated")

\* The codes extractText puts before the text of an object.
formattingCodes(obj) ==
    (IF obj.color # "" THEN SectionSign \o getColorCode(obj.color) ELSE << >>)
    \o (IF "bold" \in obj.attrs THEN SectionSign \o << 108 >> ELSE << >>)
    \o (IF "italic" \in obj.attrs THEN SectionSign \o << 111 >> ELSE << >>)
    \o (IF "underlined" \in obj.attrs THEN SectionSign \o << 110 >> ELSE << >>)
    \o (IF "strikethrough" \in obj.attrs THEN SectionSign \o << 109 >> ELSE << >>)
    \o (IF "obfuscated" \in obj.attrs THEN SectionSign \o << 107 >> ELSE << >>)

RECURSIVE extractText(_)
RECURSIVE extraLoop(_, _)
\* The for loop over obj.extra from index i (0-based) on.
extraLoop(extra, i) ==
    IF i >= Len(extra) THEN << >>
    ELSE (IF i > 0 /\ hasFormatting(extra[i]) THEN SectionSign \o << 114 >> ELSE << >>)
         \o extractText(extra[i + 1])
         \o extraLoop(extra, i + 1)

extractText(obj) ==
    IF obj.kind = "string" THEN obj.text
    ELSE formattingCodes(obj) \o obj.text \o extraLoop(obj.extra, 0)

\* [0-9a-fklmnor] with the i flag.
IsCodeChar(c) ==
    \/ c \in 48..57
    \/ c \in 97..102 \/ c \in 65..70
    \/ c \in 107..111 \/ c \in 75..79
    \/ c = 114 \/ c = 82

\* text.replace(/§[0-9a-fklmnor]/gi, ''): matches are taken from left to
\* right and do not overlap.
RECURSIVE removeColorCodes(_)
removeColorCodes(text) ==
    IF text = << >> THEN << >>
    ELSE IF Len(text) >= 2 /\ text[1] = 167 /\ IsCodeChar(text[2])
         THEN removeColorCodes(SubSeq(text, 3, Len(text)))
         ELSE << text[1] >> \o removeColorCodes(Tail(text))

\* Inputs.  Literal segments: none, "Hello ", "rf" (letters that are also
\* codes).  Colors: none, a name of the table, a name outside it, and a name
\* Object.prototype defines.
Texts == { << >>, << 72, 101, 108, 108, 111, 32 >>, << 114, 102 >> }
Colors == { "", "red", "pink", "constructor" }
Styles ==
    { [color |-> c, attrs |-> {}] : c \in Colors }
    \cup { [color |-> "", attrs |-> {a}] :
             a \in {"bold", "italic", "underlined", "strikethrough", "obfuscated"} }
    \cup { [color |-> "gold", attrs |-> {"bold", "underlined"}] }

World == << 87, 111, 114, 108, 100 >>

\* Children: strings, objects without children, and two objects with
\* children of their own.
Leaves ==
    { StringNode(t) : t \in Texts \ {<< >>} }
    \cup { ObjectNode(st.color, st.attrs, World, << >>) : st \in Styles }
Children ==
    Leaves
    \cup { ObjectNode("", {"italic"}, << 97 >>, << StringNode(<< 98 >>) >>),
           ObjectNode("", {}, << >>,
                      << ObjectNode("", {"underlined"}, << 99 >>, << >>),
                         ObjectNode("", {}, << 100 >>, << >>) >>) }

Trees ==
    { StringNode(t) : t \in Texts }
    \cup { ObjectNode(st.color, st.attrs, t, extra) :
             st \in { [color |-> "", attrs |-> {}], [color |-> "aqua", attrs |-> {}],
                      [color |-> "", attrs |-> {"bold"}] },
             t \in Texts \ {<< 114, 102 >>},
             extra \in SeqsUpTo(Children, MaxChildren) }

TextCall(fn, obj, text) == [fn |-> fn, obj |-> obj, text |-> text]

TextInit == PureInit({ TextCall("extractText", t, << >>) : t \in Trees })

\* description = extractText(response.description)
CallExtractText ==
    /\ call.fn = "extractText" /\ ~ret.done
    /\ ret' = [done |-> TRUE, text |-> extractText(call.obj)]
    /\ UNCHANGED call
    /\ UNCHANGED probeVars

\* The flattened description is handed to removeColorCodes.
Clean ==
    /\ call.fn = "extractText" /\ ret.done
    /\ call' = TextCall("removeColorCodes", call.obj, ret.text)
    /\ ret' = NoRet
    /\ UNCHANGED probeVars

\* description_clean: removeColorCodes(description)
CallRemoveColorCodes ==
    /\ call.fn = "removeColorCodes" /\ ~ret.done
    /\ ret' = [done |-> TRUE, text |-> removeColorCodes(call.text)]
    /\ UNCHANGED call
    /\ UNCHANGED probeVars

TextNext ==
    \/ CallExtractText
    \/ Clean
    \/ CallRemoveColorCodes

TextSpec == TextInit /\ [][TextNext]_vars

\* ---- the error classifier
ErrorResponse(code, message) ==
    [success |-> FALSE, error |-> [code |-> code, message |-> message]]

\* createErrorResponse without its final else.
createErrorResponseNoElse(err) ==
    IF err.code = "TIMEOUT"
    THEN ErrorResponse("timeout", "Connection to server timed out")
    ELSE IF err.code = "ENOTFOUND" \/ err.code = "EAI_AGAIN"
    THEN ErrorResponse("invalid_domain", "The domain name could not be resolved")
    ELSE IF err.code = "ECONNREFUSED"
    THEN ErrorResponse("connection_refused", "Server refused the connection")
    ELSE ErrorResponse("unknown_error", "Failed to connect to the server")

createErrorResponse(err) ==
    IF err.code = "TIMEOUT"
    THEN ErrorResponse("timeout", "Connection to server timed out")
    ELSE IF err.code = "ENOTFOUND" \/ err.code = "EAI_AGAIN"
    THEN ErrorResponse("invalid_domain", "The domain name could not be resolved")
    ELSE IF err.code = "ECONNREFUSED"
    THEN ErrorResponse("connection_refused", "Server refused the connection")
    ELSE ErrorResponse("offline", "Server appears to be offline or unreachable")

\* Faults: the codes the function names, other system codes, spellings it
\* does not name, and no code at all (an Error thrown by the protocol code),
\* each with the messages the probes and the runtime give.
FaultCodes ==
    { "TIMEOUT", "ENOTFOUND", "EAI_AGAIN", "ECONNREFUSED", "ECONNRESET",
      "EHOSTUNREACH", "ETIMEDOUT", "EPIPE", "timeout", "econnrefused",
      "unknown_error", "" }
FaultMessages ==
    { "timeout", "VarInt is too big", "Invalid packet ID", "SyntaxError",
      "TypeError", "io", "connect", "dns" }
Faults == { Err(message, code) : message \in FaultMessages, code \in FaultCodes }

ErrorInit == PureInit({ [fn |-> "createErrorResponse", err |-> e] : e \in Faults })

\* A route's catch: createErrorResponse(err).
CallCreateErrorResponse ==
    /\ call.fn = "createErrorResponse" /\ ~ret.done
    /\ ret' = [done |-> TRUE, response |-> createErrorResponse(call.err)]
    /\ UNCHANGED call
    /\ UNCHANGED probeVars

ErrorNext == CallCreateErrorResponse

ErrorSpec == ErrorInit /\ [][ErrorNext]_vars

\* ------------------------------------------------------------------ claims
Count(seq, x) == Cardinality({ i \in 1..Len(seq) : seq[i] = x })
Has(seq, x) == \E i \in 1..Len(seq) : seq[i] = x
Before(seq, x, y) == \E i, j \in 1..Len(seq) : i < j /\ seq[i] = x /\ seq[j] = y
Last(seq) == seq[Len(seq)]
TimeoutError == Err("timeout", "TIMEOUT")

\* C1: in both probes resolve or reject is called at most once, and no step
\* taken after the promise has settled calls them again or changes the
\* outcome.
C1_SettledAtMostOnce ==
    [][ /\ settleCalls' <= 1
        /\ (outcome.kind # "pending" => outcome' = outcome /\ settleCalls' = settleCalls)
        /\ (outcome'.kind # "pending" <=> settleCalls' = 1) ]_vars

\* C1 witness: the timer settled the probe and a fault of the pending
\* operation was handled afterwards.
C1_Witness ==
    /\ settleCalls = 1
    /\ outcome = Rejected(TimeoutError)
    /\ Before(events, "reject", "fault")

\* The run of connectToJavaServer is over: its async body has returned and
\* its timer has fired or was cleared.
JavaProbeOver == isJava /\ pc = "exit" /\ timerState \in {"fired", "cleared"}

\* C2 as claimed: a connectToJavaServer probe whose connection got
\* established has closed it exactly once when it is over.
C2_ClosedExactlyOnce ==
    JavaProbeOver /\ conn # "none" => closeCount = 1 /\ conn = "closed"

\* C3: a timer that fires settles the probe as the TIMEOUT failure, and a
\* probe whose timer is armed does not stay pending forever.
C3_TimeoutSettles ==
    /\ [](timerState = "fired" => outcome = Rejected(TimeoutError))
    /\ ((timerState = "armed") ~> (outcome.kind # "pending"))

\* C3 witness: the server never answered; the timer fired on the pending read.
C3_Witness ==
    /\ isJava /\ timerState = "fired" /\ stream = << >>
    /\ Before(events, "statusRequest", "deadline")
    /\ outcome = Rejected(TimeoutError)

\* C4 as claimed: the SRV lookup does not hold a probe started through
\* resolveAndConnect beyond the length of the deadline.
C4_LookupWithinDeadline ==
    revision = 1 /\ pc = "srv" => clock <= 2 * TIMEOUT_MS

\* C5 as claimed: once a complete frame with an id other than 0 and 1 has
\* been handled, or a second status response, or a pong with no status
\* response before it, the probe has failed and the socket is closed.
C5_OutOfSequenceFails ==
    isJava /\ ( \/ Has(events, "unknown")
                \/ Count(events, "status") >= 2
                \/ (Has(events, "pong") /\ ~Has(events, "status")) )
    => outcome.kind = "rejected" /\ conn = "closed"

\* The frame at the head of a stream, by its length prefix.
HeadFrameLen(st) == readVarInt(st, 0).offset + readVarInt(st, 0).value
HeadFrame(st) == SubSeq(st, 1, HeadFrameLen(st))
ValidStatusHead(st) ==
    /\ st # << >>
    /\ readVarInt(st, 0).ok
    /\ HeadFrameLen(st) <= Len(st)
    /\ ParseFrame(HeadFrame(st)).kind = "status"
    /\ ParseFrame(HeadFrame(st)).consumed = HeadFrameLen(st)
Delivered == Len(stream) - Len(wire)

\* C6: however the reads split a valid status response, the outcome is that
\* of the frame arriving in one chunk.  Before its last byte has come the
\* reads only collect (no parse, no error, no ping); the read that brings
\* the last byte parses the status the whole frame parses to; and after the
\* ping's write one ping has been sent and the buffer holds what one chunk
\* would leave, followed by the bytes read beyond the frame.
C6_SplitLikeOneChunk ==
    revision = 1 /\ isJava /\ ValidStatusHead(stream) =>
        LET frame == HeadFrame(stream)
            one   == ParseFrame(frame)
        IN  /\ Delivered < Len(frame) =>
                 /\ buffer = SubSeq(stream, 1, Delivered)
                 /\ ~serverInfo.defined
                 /\ ~Has(events, "status") /\ ~Has(events, "throw")
                 /\ Count(sent, pingPacket) = 0
            /\ Delivered >= Len(frame) =>
                 /\ Has(events, "status")
                 /\ serverInfo.defined
                 /\ serverInfo.key = one.key /\ serverInfo.num = one.num
            /\ Count(events, "status") = 1 /\ Last(events) = "ping" =>
                 /\ Count(sent, pingPacket) = 1
                 /\ buffer = SliceFrom(frame, one.consumed)
                             \o SubSeq(stream, Len(frame) + 1, Delivered)

\* C6 witness: the long status response came with a read ending inside its
\* two-byte length VarInt, was parsed, and its ping is written, the buffer
\* being empty as after one chunk.
C6_Witness ==
    /\ isJava /\ stream = StatusFrame(LongDoc) \o PongFrame
    /\ Len(createVarInt(Len(StatusFrame(LongDoc)) - 2)) = 2
    /\ Has(events, "truncated")
    /\ Last(events) = "ping"
    /\ serverInfo.key = 109 /\ serverInfo.num = 7
    /\ buffer = << >>

\* Milliseconds of Date.now() between the call of conn.send and now.
ElapsedMs == DateNow - (EpochMs + (requestAt \div 2))

C8_BadIdRejected ==
    ~isJava /\ Has(events, "reply") /\ ByteAt(msg, 0) # 28
    => outcome = Rejected(Err("Invalid packet ID", ""))

\* C8 witness: a full reply with id 0x01 and the fields of a pong was
\* received and rejected.
C8_Witness ==
    /\ ~isJava /\ Has(events, "reply")
    /\ Len(msg) > BEDROCK_INFO_OFFSET /\ ByteAt(msg, 0) = 1
    /\ outcome.kind = "rejected"

\* C9: the datagram socket, once opened, is closed by the path that settles
\* the probe and by no other: never twice, not while the probe is pending,
\* and exactly once when the probe has settled.
C9_DatagramClosedOnce ==
    ~isJava =>
        /\ closeCount <= 1
        /\ conn = "open" => closeCount = 0 /\ outcome.kind = "pending"
        /\ conn = "closed" => closeCount = 1 /\ outcome.kind # "pending"
        /\ conn = "none" => closeCount = 0

\* C9 witness: the timer closed the socket, and the fault of the pending
\* receive was handled afterwards without a second close.
C9_Witness ==
    /\ ~isJava /\ closeCount = 1
    /\ Before(events, "request", "deadline")
    /\ Before(events, "close", "fault")

\* The endpoint C10 names for an answer of the SRV lookup.
ClaimedEndpoint(answer) ==
    IF ~answer.threw /\ answer.records # << >>
    THEN << Head(answer.records).target, Head(answer.records).port >>
    ELSE << OrigHost, OrigPort >>

\* C10: the step that ends the SRV lookup leaves the first record's target
\* and port as the endpoint when the answer holds a record, and the caller's
\* host and port when the lookup threw or answered no record, reporting no
\* failure; the endpoint does not change afterwards.
C10_EndpointFromSrv ==
    [][ /\ pc = "srv" /\ pc' # "srv" =>
             /\ << host', port' >> = ClaimedEndpoint(srvAnswer')
             /\ resolveAndConnectResult'.kind = "pending"
        /\ pc # "srv" => host' = host /\ port' = port ]_vars

\* C10 witness: a Bedrock probe whose lookup answered two different records
\* goes on with the first one.
C10_Witness ==
    /\ ~isJava /\ pc = "dnsA"
    /\ Len(srvAnswer.records) = 2
    /\ srvAnswer.records[1] # srvAnswer.records[2]
    /\ host = srvAnswer.records[1].target /\ port = srvAnswer.records[1].port

\* The int32 x is the unsigned 32-bit value whose int32 alias is a: never for
\* a < 0, the unsigned value then being 2^31 or more.
EqualsUnsigned(x, a) == a >= 0 /\ x = a

\* C11 as claimed: readVarInt on the bytes createVarInt returned for the
\* unsigned value v returns v itself and an offset equal to the length of
\* the encoding, which is 1 to 5 bytes.
C11_RoundTrip ==
    call.fn = "readVarInt" /\ call.roundTrip /\ ret.done =>
        /\ ~ret.threw
        /\ EqualsUnsigned(ret.value, call.value)
        /\ ret.offset = Len(call.buffer)
        /\ Len(call.buffer) \in 1..5

\* The i-th group of seven bits (i = 0 the lowest) of the unsigned 32-bit
\* value with int32 alias a.  For a < 0 the value is a + 2^32, whose quotient
\* by 128^i is (a div 128^i) + 2^(32 - 7i); modulo 128 the second term counts
\* only for i = 4, where it is 16.
Group7(a, i) ==
    IF i > 4 THEN 0
    ELSE ((a \div (128 ^ i)) + (IF a < 0 /\ i = 4 THEN 16 ELSE 0)) % 128

\* bytes is the unsigned little-endian base-128 encoding of the value with
\* alias a: its groups of seven bits from the lowest up to the highest one
\* that is not zero, the continuation bit on every byte but the last.
IsLeb128(bytes, a) ==
    /\ Len(bytes) \in 1..5
    /\ \A i \in 1..Len(bytes) :
         bytes[i] = Group7(a, i - 1) + (IF i < Len(bytes) THEN 128 ELSE 0)
    /\ \A i \in Len(bytes)..4 : Group7(a, i) = 0
    /\ Len(bytes) > 1 => Group7(a, Len(bytes) - 1) # 0

\* C12: createVarInt returns, for every 32-bit input, the unsigned
\* little-endian base-128 encoding of the input modulo 2^32, of 1 to 5
\* bytes; for -1 that is FF FF FF FF 0F.
C12_EncodesUnsigned ==
    call.fn = "createVarInt" =>
        /\ ENABLED CallCreateVarInt \/ ret.done
        /\ ret.done =>
             /\ IsLeb128(ret.bytes, call.value)
             /\ call.value = -1 => ret.bytes = << 255, 255, 255, 255, 15 >>

\* C12 witness: createVarInt(-1) has returned five bytes.
C12_Witness ==
    /\ call.fn = "createVarInt" /\ call.value = -1
    /\ ret.done /\ Len(ret.bytes) = 5

\* The five bytes at offset .. offset + 4 exist and all have the
\* continuation bit set.
FiveContinued(buf, offset) ==
    /\ offset + 5 <= Len(buf)
    /\ \A i \in 1..5 : buf[offset + i] >= 128

\* C13: readVarInt throws exactly when the five bytes starting at the offset
\* all have the continuation bit set, and a call that returns has moved the
\* offset by 1 to 5 bytes.
C13_TooBigExactly ==
    call.fn = "readVarInt" /\ ret.done =>
        /\ ret.threw <=> FiveContinued(call.buffer, call.offset)
        /\ ~ret.threw => ret.offset - call.offset \in 1..5

\* C13 witness: readVarInt threw on a buffer of six bytes with the
\* continuation bit set on the first five, and the sixth without it.
C13_Witness ==
    /\ call.fn = "readVarInt" /\ ret.done /\ ret.threw
    /\ call.offset = 0
    /\ call.buffer = << 128, 255, 128, 255, 128, 1 >>

\* The layout C14 names: the length of id and payload together, then the
\* id, then the payload.
ClaimedFrame(id, payload) ==
    createVarInt(Len(createVarInt(id)) + Len(payload)) \o createVarInt(id) \o payload

\* Handshake payload: protocol version -1, host, port, next state 1.
ClaimedHandshake ==
    createVarInt(-1) \o createVarInt(Len(host)) \o host \o Uint16BE(port)
    \o createVarInt(1)

\* C14 as claimed: every frame written to the stream socket, by
\* connectToJavaServer and by pingJava, has the layout length, id, payload:
\* the first is the handshake (id 0), the second the status request (id 0,
\* no payload), every later one a ping (id 1, eight bytes).
C14_FrameLayout ==
    isJava =>
        \A i \in 1..Len(sent) :
            sent[i] = IF i = 1 THEN ClaimedFrame(0, ClaimedHandshake)
                      ELSE IF i = 2 THEN ClaimedFrame(0, << >>)
                      ELSE ClaimedFrame(1, PingPayload)

\* A sibling carries a formatting attribute: it is an object with a color or
\* with one of bold, italic, underlined, strikethrough, obfuscated.
Carries(item) ==
    /\ item.kind = "object"
    /\ \/ item.color # ""
       \/ item.attrs \cap {"bold", "italic", "underlined", "strikethrough",
                           "obfuscated"} # {}

\* The flattened text with the reset placed as C15 says: before a child
\* exactly when the sibling before it carries a formatting attribute.
RECURSIVE ClaimedFlatten(_)
RECURSIVE ClaimedChildren(_, _)
ClaimedChildren(extra, k) ==
    IF k > Len(extra) THEN << >>
    ELSE (IF k > 1 /\ Carries(extra[k - 1]) THEN << 167, 114 >> ELSE << >>)
         \o ClaimedFlatten(extra[k])
         \o ClaimedChildren(extra, k + 1)

ClaimedFlatten(obj) ==
    IF obj.kind = "string" THEN obj.text
    ELSE formattingCodes(obj) \o obj.text \o ClaimedChildren(obj.extra, 1)

\* C15 as claimed: in the text extractText returns, the reset sequence
\* stands before a child of extra exactly when the child has a previous
\* sibling and that sibling carries one of the attributes color, bold,
\* italic, underlined, strikethrough, obfuscated.
C15_ResetAfterFormattedSibling ==
    call.fn = "extractText" /\ ret.done => ret.text = ClaimedFlatten(call.obj)

\* The literal text segments of a tree in pre-order.
RECURSIVE Literals(_)
RECURSIVE LiteralsOf(_, _)
LiteralsOf(extra, k) ==
    IF k > Len(extra) THEN << >>
    ELSE Literals(extra[k]) \o LiteralsOf(extra, k + 1)

Literals(obj) == obj.text \o LiteralsOf(obj.extra, 1)

\* C16 as claimed: removeColorCodes of the flattened text of a tree (whose
\* literal segments hold no section sign) is the concatenation of the
\* tree's literal segments in pre-order.
C16_PlainIsLiterals ==
    call.fn = "removeColorCodes" /\ ret.done => ret.text = Literals(call.obj)

\* C17: createErrorResponse returns exactly one of the codes timeout,
\* invalid_domain, connection_refused, offline: timeout for the fault code
\* TIMEOUT, invalid_domain for ENOTFOUND and EAI_AGAIN, connection_refused
\* for ECONNREFUSED, offline for every other fault; never unknown_error.
C17_FaultClasses ==
    call.fn = "createErrorResponse" /\ ret.done =>
        LET code == ret.response.error.code
        IN  /\ code \in {"timeout", "invalid_domain", "connection_refused", "offline"}
            /\ code = "timeout" <=> call.err.code = "TIMEOUT"
            /\ code = "invalid_domain" <=> call.err.code \in {"ENOTFOUND", "EAI_AGAIN"}
            /\ code = "connection_refused" <=> call.err.code = "ECONNREFUSED"
            /\ code = "offline" <=>
                 call.err.code \notin {"TIMEOUT", "ENOTFOUND", "EAI_AGAIN", "ECONNREFUSED"}
            /\ ~ret.response.success

\* C17 witness: a protocol error, which has no code, was classified offline.
C17_Witness ==
    /\ call.fn = "createErrorResponse" /\ ret.done
    /\ call.err = Err("VarInt is too big", "")
    /\ ret.response.error.code = "offline"

\* The buffer holds fewer bytes than the length prefix at its head plus the
\* length the prefix declares.  The prefix may be cut short by the end of the
\* buffer.  A decoded length below 0 is the int32 of a declared unsigned
\* length of 2^31 or more, which no buffer here holds.
Incomplete(buf) ==
    LET len == readVarInt(buf, 0)
    IN  /\ len.ok
        /\ len.value < 0 \/ Len(buf) < len.offset + len.value

\* The bytes a read step returned.
ChunkRead == SubSeq(wire, 1, Len(wire) - Len(wire'))

\* C18 as claimed: a read of connectToJavaServer after which the buffer holds
\* fewer bytes than the frame at its head declares only appends to the
\* buffer: the bytes buffered before are kept, no frame is handled or
\* written, nothing is thrown and the outcome is not settled.
C18_IncompleteOnlyAppends ==
    [][ revision = 1 /\ isJava /\ pc = "read" /\ wire' # wire
        /\ Incomplete(buffer \o ChunkRead)
        => /\ buffer' = buffer \o ChunkRead
           /\ pc' = "read"
           /\ sent' = sent
           /\ outcome' = outcome /\ conn' = conn
           /\ serverInfo' = serverInfo
           /\ events' \in { events, Append(events, "truncated") } ]_vars

\* want is a subsequence of seq.
RECURSIVE InOrder(_, _)
InOrder(seq, want) ==
    IF want = << >> THEN TRUE
    ELSE IF seq = << >> THEN FALSE
    ELSE IF Head(seq) = Head(want) THEN InOrder(Tail(seq), Tail(want))
    ELSE InOrder(Tail(seq), want)

\* C19: a connectToJavaServer probe is resolved only after the connection
\* was established, the handshake and the status request were written, a
\* status response was parsed, a ping was written, a pong was received and
\* the socket was closed, in this order; and no pong came before the first
\* status response.
C19_SuccessOrder ==
    revision = 1 /\ isJava /\ outcome.kind = "resolved" =>
        /\ InOrder(events, << "connected", "handshake", "statusRequest", "status",
                              "ping", "pong", "close", "resolve" >>)
        /\ InOrder(sent, << handshakePacket(host, port), statusRequestPacket,
                            pingPacket >>)
        /\ \A i \in 1..Len(events) :
             events[i] = "pong" => \E j \in 1..(i - 1) : events[j] = "status"
        /\ conn = "closed"

\* C19 witness: a probe was resolved whose server sent two status responses
\* and then the pong.
C19_Witness ==
    /\ revision = 1 /\ isJava /\ outcome.kind = "resolved"
    /\ Count(events, "status") = 2
    /\ Last(events) = "resolve"

\* C20 as claimed: the step that ends the handling of a status response (the
\* ping is written) removes from the front of the buffer the frame's bytes,
\* the length prefix and the declared length, and keeps what followed.
C20_FrameRemoved ==
    [][ revision = 1 /\ isJava /\ pc = "writePing" /\ events' = Append(events, "ping")
        => buffer' = SubSeq(buffer, HeadFrameLen(buffer) + 1, Len(buffer)) ]_vars

\* C21 as claimed: once the outcome of a connectToJavaServer probe is
\* settled, no frame is written to the connection any more.
C21_NoWriteAfterSettled ==
    [][ revision = 1 /\ isJava /\ outcome.kind # "pending" => sent' = sent ]_vars

\* C22: after a read of connectToJavaServer returned end-of-stream the loop
\* is left with the outcome pending and the socket open and never closed;
\* the probe stays so until the deadline timer fires, which closes the socket
\* (its one close) and rejects with the TIMEOUT failure; and the timer does
\* fire.
C22_EofEndsByTimeout ==
    /\ [](revision = 1 /\ isJava /\ Has(events, "eof") =>
            /\ pc = "exit"
            /\ \/ /\ timerState = "armed"
                  /\ outcome.kind = "pending" /\ conn = "open" /\ closeCount = 0
                  /\ Last(events) = "eof"
               \/ /\ timerState = "fired"
                  /\ outcome = Rejected(TimeoutError)
                  /\ conn = "closed" /\ closeCount = 1)
    /\ ((revision = 1 /\ isJava /\ Has(events, "eof"))
          ~> (outcome = Rejected(TimeoutError) /\ closeCount = 1))

\* C22 witness: the server ended the stream after its status response and
\* before any pong; the timer then fired and closed the socket.
C22_Witness ==
    /\ revision = 1 /\ isJava
    /\ InOrder(events, << "status", "ping", "eof", "deadline", "close", "reject" >>)
    /\ ~Has(events, "pong")
    /\ timerState = "fired" /\ closeCount = 1
    /\ outcome = Rejected(TimeoutError)

\* Events of a frame handled by the read loop, and how many a log holds.
FrameEvents == { "status", "pong", "unknown", "throw" }
CountFrames(evs) == Cardinality({ i \in 1..Len(evs) : evs[i] \in FrameEvents })

\* The bytes read and not yet handled: the buffer, less the status response
\* whose ping is being written.
Remainder == IF pc = "writePing" THEN SliceFrom(buffer, sliceAt) ELSE buffer

\* The read that completed a status response brought a further complete
\* frame with it, and the server has nothing more to give: the last frame
\* handled is a status response, a complete frame is left unhandled, and no
\* byte is left to read.
FrameLeftBehind ==
    /\ revision = 1 /\ isJava
    /\ wire = << >>
    /\ \E i \in 1..Len(events) :
         /\ events[i] = "status"
         /\ \A j \in (i + 1)..Len(events) : events[j] \notin FrameEvents
    /\ ParseFrame(Remainder).kind \in {"status", "pong", "ignore"}

\* C23: connectToJavaServer handles at most one frame per read, and only in
\* a step in which a read returned data; the buffer changes only by such a
\* read and by the cut after the ping's write.  When a further complete frame
\* came with the status response and no later read returns data, the probe
\* is never resolved: it is rejected, by the timeout unless a read or write
\* failed.
C23_OneFramePerRead ==
    /\ [][ revision = 1 /\ isJava =>
             /\ CountFrames(events') <= CountFrames(events) + 1
             /\ CountFrames(events') > CountFrames(events) => wire' # wire
             /\ buffer' # buffer =>
                  \/ wire' # wire
                  \/ pc = "writePing" /\ buffer' = SliceFrom(buffer, sliceAt) ]_vars
    /\ [](FrameLeftBehind =>
            /\ outcome.kind # "resolved"
            /\ outcome.kind = "rejected" /\ ~Has(events, "fault")
                 => outcome = Rejected(TimeoutError))
    /\ (FrameLeftBehind ~> outcome.kind = "rejected")

\* C23 witness: one read brought the status response and the pong; the pong
\* stayed in the buffer and the probe ended by the timeout.
C23_Witness ==
    /\ FrameLeftBehind
    /\ stream = StatusFrame(ShortDoc) \o PongFrame
    /\ ~Has(events, "truncated")
    /\ buffer = PongFrame
    /\ Last(events) = "reject"
    /\ outcome = Rejected(TimeoutError)

====
